---------------------------- MODULE Spec2Model ----------------------------
(***************************************************************************)
(* Model of the water-monitor client: the device ownership protocol of     *)
(* deviceService.js run by several signed-in users against one realtime    *)
(* database, the device-data listener of deviceService.js, and the alert   *)
(* derivation of DeviceDataContext.js.                                     *)
(*                                                                         *)
(* The realtime database is a path-addressed store.  get() resolves with   *)
(* the value stored at the moment it is served; set() and remove() either  *)
(* apply atomically or reject (the promise throws into the caller's catch).*)
(* Every await of the source is a point where other clients' steps may     *)
(* interleave.  Each user runs one service call at a time; calls of        *)
(* different users interleave freely.                                      *)
(***************************************************************************)
EXTENDS Integers, Sequences, FiniteSets, TLC

VARIABLES
    claimed,        \* users/{uid}/claimedDevices : the device ids under the node
    owner,          \* deviceOwners/{deviceId}    : uid, or NoOwner when absent
    commands,       \* devices/{deviceId}/commands: valveControl, resetTotal
    calls,          \* per signed-in user: the service call in flight, or its result
    started,        \* number of service calls issued so far
    \* one client's deviceService module (listeners on devices/{d}/data)
    currentUser,    \* auth.currentUser: the uid signed in on the client, or NoUser
    activeListeners,\* the activeListeners map: listener key -> registered subscription
    attached,       \* the value handlers attached to the database by onValue
    subscribed,     \* number of subscriptions created so far
    lastCallback,   \* the latest invocation of a callback given to listenToDeviceData
    \* the DeviceDataProvider of a signed-in user, mounted
    devices,        \* the devices state: the list of device objects
    listenersRef,   \* listenersRef.current: the keys holding an unsubscribe function
    alertTracker,   \* alertTrackerRef.current: the `${deviceId}_leak` and `_battery` entries
    updates,        \* the data snapshots delivered so far, with the alerts each created
    subs,           \* the provider's onValue subscriptions attached to the database, per key
    appState,       \* appStateRef.current
    \* the client's batteryMonitorService module and the app around it
    activeBatteryListeners, \* the activeBatteryListeners map: `battery_${deviceId}` -> listener
    batteryAttached,\* the handleBatteryUpdate handlers attached to the database
    alertCooldowns, \* the alertCooldowns map: `${deviceId}_battery` -> time, 0 when absent
    now,            \* Date.now(), in units of twelve hours
    lowBatteryCalls,\* the handleLowBattery calls awaiting createLowBatteryAlert
    batteryAlerts,  \* the low-battery alerts created so far, with the time of creation
    user,           \* the user state of the AuthProvider, as the mounted effects see it
    monitoring      \* per user: the monitorAllDevices calls awaiting the device list

ownVars == <<claimed, owner, commands, calls, started>>

lsnVars == <<currentUser, activeListeners, attached, subscribed, lastCallback>>

ctxVars == <<devices, listenersRef, alertTracker, updates, subs, appState>>

batVars == <<activeBatteryListeners, batteryAttached, alertCooldowns, now,
             lowBatteryCalls, batteryAlerts, user, monitoring>>

vars == <<claimed, owner, commands, calls, started,
          currentUser, activeListeners, attached, subscribed, lastCallback,
          devices, listenersRef, alertTracker, updates, subs, appState,
          activeBatteryListeners, batteryAttached, alertCooldowns, now,
          lowBatteryCalls, batteryAlerts, user, monitoring>>

---------------------------------------------------------------------------
(* Bounds *)

MaxCalls == 3         \* service calls issued in one run
MaxSubs == 3          \* subscriptions created in one run
MaxUpdates == 3       \* data snapshots delivered in one run
MaxCtxUpdates == 1    \* data snapshots delivered in one run of the whole provider
MaxPending == 2       \* handleLowBattery calls awaiting alert creation at one time
MaxAlerts == 2        \* low-battery alerts created in one run
MaxTime == 4          \* the clock stops after MaxTime twelve-hour units

Users == {1, 2}
Devices == {1, 2}

\* device ids seen by the provider, each the sequence of its '_'-separated parts
CtxDevices == {<<"A">>, <<"A", "B">>}         \* 'A' and 'A_B'
CtxDeviceOrder == <<<<"A">>, <<"A", "B">>>>   \* the order Object.keys lists them in

\* telemetry values a data snapshot may carry
FlowRates == {5, 6}               \* flowRate in tenths of a litre per minute
ValveStates == {"OPEN", "CLOSED", "UNKNOWN"}
BatteryLevels == {0, 15, 25, 30}  \* batteryPercentage

FlowThreshold == 5                \* 0.5 L/min
LowBatteryThreshold == 20
BatteryRecovered == 25

NoOwner == 0          \* ownerSnapshot.exists() is false
NoUser == 0           \* auth.currentUser is null

---------------------------------------------------------------------------
(* Results returned by the service calls *)

NoResult ==
    [success |-> FALSE, error |-> "pending", alreadyOwned |-> FALSE,
     isDuplicate |-> FALSE, deviceId |-> 0, data |-> "absent"]

\* { success: true, ... }
Ok(alreadyOwned, deviceId, data) ==
    [success |-> TRUE, error |-> "", alreadyOwned |-> alreadyOwned,
     isDuplicate |-> FALSE, deviceId |-> deviceId, data |-> data]

\* { success: false, error: msg, ... }
Err(msg, isDuplicate, data) ==
    [success |-> FALSE, error |-> msg, alreadyOwned |-> FALSE,
     isDuplicate |-> isDuplicate, deviceId |-> 0, data |-> data]

Idle == [op |-> "none", d |-> 0, pc |-> "idle", arg |-> FALSE, res |-> NoResult]

\* a call of operation op on device d, suspended at the await named pc
Call(op, d, pc, arg) == [op |-> op, d |-> d, pc |-> pc, arg |-> arg, res |-> NoResult]

\* the call of user u returns r
Return(u, r) ==
    calls' = [calls EXCEPT ![u] = [@ EXCEPT !.pc = "done", !.res = r]]

\* the call of user u moves on to its next await
Goto(u, pc) ==
    calls' = [calls EXCEPT ![u] = [@ EXCEPT !.pc = pc]]

\* a new call may start when the user's previous one has returned
CanStart(u) == calls[u].pc \in {"idle", "done"} /\ started < MaxCalls

At(u, op, pc) == calls[u].op = op /\ calls[u].pc = pc

\* no callback has been invoked yet
NoCallback == [userId |-> NoUser, d |-> 0, data |-> "none"]

\* ownerSnap.exists() && ownerSnap.val() !== userId
OwnedByOther(snap, u) == snap # NoOwner /\ snap # u

\* !ownerSnapshot.exists() || ownerSnapshot.val() !== userId
NotOwner(snap, u) == snap = NoOwner \/ snap # u

---------------------------------------------------------------------------
\* the database before any device is claimed, no call issued
InitOwnership ==
    /\ claimed = [u \in Users |-> {}]
    /\ owner = [d \in Devices |-> NoOwner]
    /\ commands = [d \in Devices |-> [valveControl |-> "absent", resetTotal |-> "absent"]]
    /\ calls = [u \in Users |-> Idle]
    /\ started = 0

\* the keys of listenersRef.current
ClaimedKey == [kind |-> "claimedDevices", id |-> <<>>]

CtxKeys == {ClaimedKey} \cup [kind : {"data", "info"}, id : CtxDevices]

\* the deviceService module as loaded: nobody signed in, activeListeners = new Map()
InitListeners ==
    /\ currentUser = NoUser
    /\ activeListeners = {}
    /\ attached = {}
    /\ subscribed = 0
    /\ lastCallback = NoCallback

\* the provider after its mount effect: setupDeviceListeners has subscribed to
\* users/{uid}/claimedDevices, no snapshot has arrived yet
InitContext ==
    /\ devices = <<>>
    /\ listenersRef = {ClaimedKey}
    /\ alertTracker = [leak |-> [id \in CtxDevices |-> FALSE],
                       battery |-> [id \in CtxDevices |-> 0]]
    /\ updates = <<>>
    /\ subs = [k \in CtxKeys |-> IF k = ClaimedKey THEN 1 ELSE 0]
    /\ appState = "active"

\* the batteryMonitorService module as loaded, nobody signed in to the app
InitBattery ==
    /\ activeBatteryListeners = {}
    /\ batteryAttached = {}
    /\ alertCooldowns = [d \in Devices |-> 0]
    /\ now = 1
    /\ lowBatteryCalls = <<>>
    /\ batteryAlerts = <<>>
    /\ user = NoUser
    /\ monitoring = [u \in Users |-> 0]

Init ==
    /\ InitOwnership
    /\ InitListeners
    /\ InitContext
    /\ InitBattery

---------------------------------------------------------------------------
(* deviceService.addDevice(userId, deviceData), called by signed-in user u *)

\* entry: argument checks, validateCurrentUser, uid comparison; then await get(ownerRef)
AddDeviceStart(u, userId, d) ==
    /\ CanStart(u)
    /\ IF userId # u
         THEN calls' = [calls EXCEPT ![u] =
                  [Call("addDevice", d, "done", FALSE) EXCEPT
                      !.res = Err("User ID mismatch", FALSE, "absent")]]
         ELSE calls' = [calls EXCEPT ![u] = Call("addDevice", d, "checkOwner", FALSE)]
    /\ UNCHANGED <<claimed, owner, commands>>
    /\ started' = started + 1
    /\ UNCHANGED <<lsnVars, ctxVars, batVars>>

\* variant: the duplicate test is missing, a device owned by another is claimed anyway
AddDeviceCheckNoDuplicateTest(u) ==
    /\ At(u, "addDevice", "checkOwner")
    /\ LET d == calls[u].d IN
       IF owner[d] = u
         THEN Return(u, Ok(TRUE, 0, "absent"))
         ELSE Goto(u, "writeClaimed")
    /\ UNCHANGED <<claimed, owner, commands, started>>
    /\ UNCHANGED <<lsnVars, ctxVars, batVars>>

\* get(ownerRef) resolves: duplicate / already owned / go on to claim
AddDeviceCheck(u) ==
    /\ At(u, "addDevice", "checkOwner")
    /\ LET d == calls[u].d IN
       IF owner[d] # NoOwner
         THEN IF OwnedByOther(owner[d], u)
                THEN Return(u, Err("This device is already claimed by another user",
                                   TRUE, "absent"))
                ELSE Return(u, Ok(TRUE, 0, "absent"))
         ELSE Goto(u, "writeClaimed")
    /\ UNCHANGED <<claimed, owner, commands, started>>
    /\ UNCHANGED <<lsnVars, ctxVars, batVars>>

\* variant: the write to the claimed list is left out
AddDeviceWriteClaimedSkipped(u) ==
    /\ At(u, "addDevice", "writeClaimed")
    /\ Goto(u, "writeOwner")
    /\ UNCHANGED <<claimed, owner, commands, started>>
    /\ UNCHANGED <<lsnVars, ctxVars, batVars>>

\* await set(users/{userId}/claimedDevices/{deviceId}, true)
AddDeviceWriteClaimed(u) ==
    /\ At(u, "addDevice", "writeClaimed")
    /\ LET d == calls[u].d IN
       \/ /\ claimed' = [claimed EXCEPT ![u] = @ \cup {d}]
          /\ Goto(u, "writeOwner")
       \/ /\ Return(u, Err("write failed", FALSE, "absent"))
          /\ UNCHANGED claimed
    /\ UNCHANGED <<owner, commands, started>>
    /\ UNCHANGED <<lsnVars, ctxVars, batVars>>

\* await set(ownerRef, userId); return { success: true, deviceId }
AddDeviceWriteOwner(u) ==
    /\ At(u, "addDevice", "writeOwner")
    /\ LET d == calls[u].d IN
       \/ /\ owner' = [owner EXCEPT ![d] = u]
          /\ Return(u, Ok(FALSE, d, "absent"))
       \/ /\ Return(u, Err("write failed", FALSE, "absent"))
          /\ UNCHANGED owner
    /\ UNCHANGED <<claimed, commands, started>>
    /\ UNCHANGED <<lsnVars, ctxVars, batVars>>

---------------------------------------------------------------------------
(* deviceService.claimDeviceOwnership(userId, deviceId); every caller passes *)
(* its own uid as userId                                                    *)

\* entry: argument check; then await get(ownerRef)
ClaimStart(u, d) ==
    /\ CanStart(u)
    /\ calls' = [calls EXCEPT ![u] = Call("claimDeviceOwnership", d, "checkOwner", FALSE)]
    /\ UNCHANGED <<claimed, owner, commands>>
    /\ started' = started + 1
    /\ UNCHANGED <<lsnVars, ctxVars, batVars>>

\* variant: the record is written again when it already names the user
ClaimCheckRewrites(u) ==
    /\ At(u, "claimDeviceOwnership", "checkOwner")
    /\ LET d == calls[u].d IN
       IF OwnedByOther(owner[d], u)
         THEN Return(u, Err("Device is already claimed by another user",
                            FALSE, "absent"))
         ELSE Goto(u, "writeOwner")
    /\ UNCHANGED <<claimed, owner, commands, started>>
    /\ UNCHANGED <<lsnVars, ctxVars, batVars>>

\* get(ownerRef) resolves: claimed by another / already owned / go on to claim
ClaimCheck(u) ==
    /\ At(u, "claimDeviceOwnership", "checkOwner")
    /\ LET d == calls[u].d IN
       IF owner[d] # NoOwner
         THEN IF OwnedByOther(owner[d], u)
                THEN Return(u, Err("Device is already claimed by another user",
                                   FALSE, "absent"))
                ELSE Return(u, Ok(TRUE, 0, "absent"))
         ELSE Goto(u, "writeOwner")
    /\ UNCHANGED <<claimed, owner, commands, started>>
    /\ UNCHANGED <<lsnVars, ctxVars, batVars>>

\* await set(ownerRef, userId); return { success: true }
ClaimWriteOwner(u) ==
    /\ At(u, "claimDeviceOwnership", "writeOwner")
    /\ LET d == calls[u].d IN
       \/ /\ owner' = [owner EXCEPT ![d] = u]
          /\ Return(u, Ok(FALSE, 0, "absent"))
       \/ /\ Return(u, Err("write failed", FALSE, "absent"))
          /\ UNCHANGED owner
    /\ UNCHANGED <<claimed, commands, started>>
    /\ UNCHANGED <<lsnVars, ctxVars, batVars>>

---------------------------------------------------------------------------
(* deviceService.removeDevice(userId, deviceId), called by signed-in user u *)

\* entry: checks, uid comparison, local listener cleanup; then await remove(claimedRef)
RemoveDeviceStart(u, userId, d) ==
    /\ CanStart(u)
    /\ IF userId # u
         THEN calls' = [calls EXCEPT ![u] =
                  [Call("removeDevice", d, "done", FALSE) EXCEPT
                      !.res = Err("User ID mismatch", FALSE, "absent")]]
         ELSE calls' = [calls EXCEPT ![u] = Call("removeDevice", d, "removeClaimed", FALSE)]
    /\ UNCHANGED <<claimed, owner, commands>>
    /\ started' = started + 1
    /\ UNCHANGED <<lsnVars, ctxVars, batVars>>

\* await remove(users/{userId}/claimedDevices/{deviceId}); then await get(ownerRef)
RemoveDeviceRemoveClaimed(u) ==
    /\ At(u, "removeDevice", "removeClaimed")
    /\ LET d == calls[u].d IN
       \/ /\ claimed' = [claimed EXCEPT ![u] = @ \ {d}]
          /\ Goto(u, "checkOwner")
       \/ /\ Return(u, Err("write failed", FALSE, "absent"))
          /\ UNCHANGED claimed
    /\ UNCHANGED <<owner, commands, started>>
    /\ UNCHANGED <<lsnVars, ctxVars, batVars>>

\* variant: the ownership record is never removed
RemoveDeviceCheckKeepsOwner(u) ==
    /\ At(u, "removeDevice", "checkOwner")
    /\ Return(u, Ok(FALSE, 0, "absent"))
    /\ UNCHANGED <<claimed, owner, commands, started>>
    /\ UNCHANGED <<lsnVars, ctxVars, batVars>>

\* get(ownerRef) resolves: remove the record when it names the user, else return
RemoveDeviceCheck(u) ==
    /\ At(u, "removeDevice", "checkOwner")
    /\ LET d == calls[u].d IN
       IF owner[d] # NoOwner /\ owner[d] = u
         THEN Goto(u, "removeOwner")
         ELSE Return(u, Ok(FALSE, 0, "absent"))
    /\ UNCHANGED <<claimed, owner, commands, started>>
    /\ UNCHANGED <<lsnVars, ctxVars, batVars>>

\* await remove(ownerRef); return { success: true }
RemoveDeviceRemoveOwner(u) ==
    /\ At(u, "removeDevice", "removeOwner")
    /\ LET d == calls[u].d IN
       \/ /\ owner' = [owner EXCEPT ![d] = NoOwner]
          /\ Return(u, Ok(FALSE, 0, "absent"))
       \/ /\ Return(u, Err("write failed", FALSE, "absent"))
          /\ UNCHANGED owner
    /\ UNCHANGED <<claimed, commands, started>>
    /\ UNCHANGED <<lsnVars, ctxVars, batVars>>

---------------------------------------------------------------------------
(* deviceService.removeDeviceOwnership(deviceId), called by signed-in user u *)

RemoveOwnershipStart(u, d) ==
    /\ CanStart(u)
    /\ calls' = [calls EXCEPT ![u] = Call("removeDeviceOwnership", d, "checkOwner", FALSE)]
    /\ UNCHANGED <<claimed, owner, commands>>
    /\ started' = started + 1
    /\ UNCHANGED <<lsnVars, ctxVars, batVars>>

RemoveOwnershipCheck(u) ==
    /\ At(u, "removeDeviceOwnership", "checkOwner")
    /\ LET d == calls[u].d IN
       IF NotOwner(owner[d], u)
         THEN Return(u, Err("You do not own this device", FALSE, "absent"))
         ELSE Goto(u, "removeOwner")
    /\ UNCHANGED <<claimed, owner, commands, started>>
    /\ UNCHANGED <<lsnVars, ctxVars, batVars>>

RemoveOwnershipRemove(u) ==
    /\ At(u, "removeDeviceOwnership", "removeOwner")
    /\ LET d == calls[u].d IN
       \/ /\ owner' = [owner EXCEPT ![d] = NoOwner]
          /\ Return(u, Ok(FALSE, 0, "absent"))
       \/ /\ Return(u, Err("write failed", FALSE, "absent"))
          /\ UNCHANGED owner
    /\ UNCHANGED <<claimed, commands, started>>
    /\ UNCHANGED <<lsnVars, ctxVars, batVars>>

---------------------------------------------------------------------------
(* deviceService.controlValve(deviceId, shouldOpen) and                     *)
(* deviceService.resetTotalLitres(deviceId), called by signed-in user u     *)

CommandOps == {"controlValve", "resetTotalLitres"}

\* entry: argument checks, validateCurrentUser; then await get(ownerRef)
CommandStart(u, op, d, shouldOpen) ==
    /\ CanStart(u)
    /\ op \in CommandOps
    /\ op = "resetTotalLitres" => shouldOpen = TRUE
    /\ calls' = [calls EXCEPT ![u] = Call(op, d, "checkOwner", shouldOpen)]
    /\ UNCHANGED <<claimed, owner, commands>>
    /\ started' = started + 1
    /\ UNCHANGED <<lsnVars, ctxVars, batVars>>

\* get(ownerRef) resolves: not the owner -> error, else go on to write the command
CommandCheck(u) ==
    /\ calls[u].op \in CommandOps /\ calls[u].pc = "checkOwner"
    /\ LET d == calls[u].d IN
       IF NotOwner(owner[d], u)
         THEN Return(u, Err("You do not own this device", FALSE, "absent"))
         ELSE Goto(u, "writeCommand")
    /\ UNCHANGED <<claimed, owner, commands, started>>
    /\ UNCHANGED <<lsnVars, ctxVars, batVars>>

\* what set(commandRef, ...) stores under devices/{deviceId}/commands
CommandWritten(c, old) ==
    IF c.op = "controlValve"
      THEN [old EXCEPT !.valveControl = IF c.arg THEN "true" ELSE "false"]
      ELSE [old EXCEPT !.resetTotal = "true"]

\* await set(commandRef, value); return { success: true }
CommandWrite(u) ==
    /\ calls[u].op \in CommandOps /\ calls[u].pc = "writeCommand"
    /\ LET d == calls[u].d IN
       \/ /\ commands' = [commands EXCEPT ![d] = CommandWritten(calls[u], @)]
          /\ Return(u, Ok(FALSE, 0, "absent"))
       \/ /\ Return(u, Err("write failed", FALSE, "absent"))
          /\ UNCHANGED commands
    /\ UNCHANGED <<claimed, owner, started>>
    /\ UNCHANGED <<lsnVars, ctxVars, batVars>>

---------------------------------------------------------------------------
(* Owner-gated reads: getDeviceData, getDeviceInfo, getDeviceHistory,       *)
(* getAnalyticsData, each through deviceService.checkDeviceOwnership        *)

ReadOps == {"getDeviceData", "getDeviceInfo", "getDeviceHistory", "getAnalyticsData"}

\* the data field of a result that carries no records: null, or [] for the list reads
NoData(op) == IF op \in {"getDeviceHistory", "getAnalyticsData"} THEN "empty" ELSE "null"

\* variant: any existing ownership record passes
IsOwnerAnyRecord(snap, u) == snap # NoOwner

\* deviceService.checkDeviceOwnership: isOwner of the snapshot read for user u
IsOwner(snap, u) == snap # NoOwner /\ snap = u

\* entry: argument check, validateCurrentUser; then await checkDeviceOwnership
ReadStart(u, op, d) ==
    /\ CanStart(u)
    /\ op \in ReadOps
    /\ calls' = [calls EXCEPT ![u] = Call(op, d, "checkOwner", FALSE)]
    /\ UNCHANGED <<claimed, owner, commands>>
    /\ started' = started + 1
    /\ UNCHANGED <<lsnVars, ctxVars, batVars>>

\* checkDeviceOwnership resolves: not the owner -> error, else go on to read
ReadCheck(u) ==
    /\ calls[u].op \in ReadOps /\ calls[u].pc = "checkOwner"
    /\ LET d == calls[u].d IN
       IF ~IsOwner(owner[d], u)
         THEN Return(u, Err("Device not found or unauthorized", FALSE, NoData(calls[u].op)))
         ELSE Goto(u, "readData")
    /\ UNCHANGED <<claimed, owner, commands, started>>
    /\ UNCHANGED <<lsnVars, ctxVars, batVars>>

\* await get(dataRef / infoRef / historyQuery / analyticsQuery): the device may or
\* may not have published records; return them, or null / [] when there are none
ReadData(u) ==
    /\ calls[u].op \in ReadOps /\ calls[u].pc = "readData"
    /\ \E exists \in BOOLEAN :
          IF exists
            THEN Return(u, Ok(FALSE, 0, "stored"))
            ELSE Return(u, Ok(FALSE, 0, NoData(calls[u].op)))
    /\ UNCHANGED <<claimed, owner, commands, started>>
    /\ UNCHANGED <<lsnVars, ctxVars, batVars>>

---------------------------------------------------------------------------
Next ==
    \/ \E u \in Users, userId \in Users, d \in Devices : AddDeviceStart(u, userId, d)
    \/ \E u \in Users : AddDeviceCheck(u)
    \/ \E u \in Users : AddDeviceWriteClaimed(u)
    \/ \E u \in Users : AddDeviceWriteOwner(u)
    \/ \E u \in Users, d \in Devices : ClaimStart(u, d)
    \/ \E u \in Users : ClaimCheck(u)
    \/ \E u \in Users : ClaimWriteOwner(u)
    \/ \E u \in Users, userId \in Users, d \in Devices : RemoveDeviceStart(u, userId, d)
    \/ \E u \in Users : RemoveDeviceRemoveClaimed(u)
    \/ \E u \in Users : RemoveDeviceCheck(u)
    \/ \E u \in Users : RemoveDeviceRemoveOwner(u)
    \/ \E u \in Users, d \in Devices : RemoveOwnershipStart(u, d)
    \/ \E u \in Users : RemoveOwnershipCheck(u)
    \/ \E u \in Users : RemoveOwnershipRemove(u)
    \/ \E u \in Users, op \in CommandOps, d \in Devices, shouldOpen \in BOOLEAN :
          CommandStart(u, op, d, shouldOpen)
    \/ \E u \in Users : CommandCheck(u)
    \/ \E u \in Users : CommandWrite(u)
    \/ \E u \in Users, op \in ReadOps, d \in Devices : ReadStart(u, op, d)
    \/ \E u \in Users : ReadCheck(u)
    \/ \E u \in Users : ReadData(u)

Spec == Init /\ [][Next]_vars

---------------------------------------------------------------------------
(* One client's deviceService listeners on devices/{deviceId}/data.  uids hold *)
(* no '_', so the key `${type}_${userId}_${deviceId}` is the triple itself.    *)

\* generateListenerKey(type, userId, deviceId)
generateListenerKey(type, userId, d) == <<type, userId, d>>

\* the activeListeners entries cleanupListener(key) finds
Registered(key) == {l \in activeListeners : l.key = key}

\* cleanupListener(key) without listener.cleanup()
cleanupListenerNoOff(key) ==
    /\ activeListeners' = activeListeners \ Registered(key)
    /\ attached' = attached

\* cleanupListener(key): listener.cleanup() detaches the registered handler
\* (off(dataRef, 'value', handleValue)), then activeListeners.delete(key)
cleanupListener(key) ==
    /\ activeListeners' = activeListeners \ Registered(key)
    /\ attached' = {s \in attached : \A l \in Registered(key) : l.sub # s.id}

\* authService.signIn: the client's auth.currentUser becomes u
SignIn(u) ==
    /\ currentUser # u
    /\ currentUser' = u
    /\ UNCHANGED <<activeListeners, attached, subscribed, lastCallback>>
    /\ UNCHANGED <<ownVars, ctxVars, batVars>>

\* authService.signOut: auth.currentUser becomes null
SignOut ==
    /\ currentUser # NoUser
    /\ currentUser' = NoUser
    /\ UNCHANGED <<activeListeners, attached, subscribed, lastCallback>>
    /\ UNCHANGED <<ownVars, ctxVars, batVars>>

\* deviceService.listenToDeviceData(deviceId, callback): clean up the listener
\* registered under the key, start the ownership check (its result is only
\* logged), attach handleValue with onValue, register the new listener
listenToDeviceData(d) ==
    /\ currentUser # NoUser
    /\ subscribed < MaxSubs
    /\ LET key == generateListenerKey("device_data", currentUser, d)
           id == subscribed + 1
       IN /\ activeListeners' =
                 (activeListeners \ Registered(key)) \cup {[key |-> key, sub |-> id]}
          /\ attached' =
                 {s \in attached : \A l \in Registered(key) : l.sub # s.id}
                    \cup {[id |-> id, type |-> "device_data",
                           userId |-> currentUser, d |-> d]}
          /\ subscribed' = id
    /\ UNCHANGED <<currentUser, lastCallback>>
    /\ UNCHANGED <<ownVars, ctxVars, batVars>>

\* what handleValue of a listener of the type passes to the callback
CallbackData(type, exists) ==
    CASE type = "device_data" -> IF exists THEN "deviceData" ELSE "null"
      [] type = "device_info" -> IF exists THEN "info" ELSE "null"
      [] type = "devices" -> IF exists THEN "devices" ELSE "[]"

\* handleValue(snapshot) of an attached subscription: when the signed-in user is
\* no longer the one that subscribed, clean up; else pass the data (or null when
\* the snapshot does not exist) to the callback
handleValue(s, exists) ==
    /\ s \in attached
    /\ IF currentUser = NoUser \/ currentUser # s.userId
         THEN /\ cleanupListener(generateListenerKey(s.type, s.userId, s.d))
              /\ UNCHANGED lastCallback
         ELSE /\ lastCallback' =
                     [userId |-> s.userId, d |-> s.d,
                      data |-> CallbackData(s.type, exists)]
              /\ UNCHANGED <<activeListeners, attached>>
    /\ UNCHANGED <<currentUser, subscribed>>
    /\ UNCHANGED <<ownVars, ctxVars, batVars>>

\* handleError(error) of an attached subscription: the database has cancelled the
\* subscription; clean up the listener registered under its key
handleError(s) ==
    /\ s \in attached
    /\ LET key == generateListenerKey(s.type, s.userId, s.d)
       IN /\ activeListeners' = activeListeners \ Registered(key)
          /\ attached' = {t \in attached :
                             t # s /\ \A l \in Registered(key) : l.sub # t.id}
    /\ UNCHANGED <<currentUser, subscribed, lastCallback>>
    /\ UNCHANGED <<ownVars, ctxVars, batVars>>

\* the function a listenTo... call returned: () => cleanupListener(listenerKey)
Unsubscribe(type, userId, d) ==
    /\ subscribed > 0
    /\ cleanupListener(generateListenerKey(type, userId, d))
    /\ UNCHANGED <<currentUser, subscribed, lastCallback>>
    /\ UNCHANGED <<ownVars, ctxVars, batVars>>

\* a database in which any user may be the recorded owner of a device
InitListen ==
    /\ owner \in [Devices -> Users \cup {NoOwner}]
    /\ claimed = [u \in Users |-> {d \in Devices : owner[d] = u}]
    /\ commands = [d \in Devices |-> [valveControl |-> "absent", resetTotal |-> "absent"]]
    /\ calls = [u \in Users |-> Idle]
    /\ started = 0
    /\ InitListeners
    /\ InitContext
    /\ InitBattery

NextListen ==
    \/ \E u \in Users : SignIn(u)
    \/ SignOut
    \/ \E d \in Devices : listenToDeviceData(d)
    \/ \E s \in attached, exists \in BOOLEAN : handleValue(s, exists)
    \/ \E s \in attached : handleError(s)
    \/ \E u \in Users, d \in Devices : Unsubscribe("device_data", u, d)

SpecListen == InitListen /\ [][NextListen]_vars

---------------------------------------------------------------------------
(* DeviceDataProvider (DeviceDataContext.js): the claimedDevices listener,  *)
(* the per-device data listener and the alert derivation                    *)

DataKey(id) == [kind |-> "data", id |-> id]      \* `device_${deviceId}_data`
InfoKey(id) == [kind |-> "info", id |-> id]      \* `device_${deviceId}_info`

\* key.split('_')[1] of a key that starts with 'device_': the first part of the id
KeyDeviceId(key) == <<Head(key.id)>>

\* Object.keys(snapshot.val()) for a snapshot holding the ids
KeysOf(ids) == SelectSeq(CtxDeviceOrder, LAMBDA id : id \in ids)

\* the entry pushed on devicesList for a claimed device
NewDevice(id) ==
    [deviceId |-> id, status |-> "loading",
     flowRate |-> 0, valveState |-> "undefined", batteryPercentage |-> 0,
     batteryLevel |-> 0]

\* { ...newDevice, ...existingDevice }: the existing device's fields win
MergeDevice(new, prev) ==
    IF \E i \in 1..Len(prev) : prev[i].deviceId = new.deviceId
      THEN prev[CHOOSE i \in 1..Len(prev) : prev[i].deviceId = new.deviceId]
      ELSE new

\* the device object the data listener builds from a data snapshot
UpdatedDevice(dev, data) ==
    [dev EXCEPT !.flowRate = data.flowRate,
                !.valveState = data.valveState,
                !.batteryLevel = data.batteryPercentage,
                !.batteryPercentage = data.batteryPercentage]

\* handleLeakDetection: flowRate > 0.5 && valveState === 'CLOSED'
LeakCondition(dev) == dev.flowRate > FlowThreshold /\ dev.valveState = "CLOSED"

\* handleLeakDetection creates a leak alert for dev
LeakAlertCreated(tracker, dev) ==
    LeakCondition(dev) /\ ~tracker.leak[dev.deviceId]

\* the `${deviceId}_leak` entry after handleLeakDetection(dev)
LeakTrackerAfter(tracker, dev) ==
    IF LeakCondition(dev)
      THEN TRUE
      ELSE IF tracker.leak[dev.deviceId]
                /\ (dev.flowRate <= FlowThreshold \/ dev.valveState = "OPEN")
             THEN FALSE
             ELSE tracker.leak[dev.deviceId]

\* handleLowBatteryDetection: batteryLevel < 20 && batteryLevel > 0
LowBattery(dev) ==
    dev.batteryPercentage < LowBatteryThreshold /\ dev.batteryPercentage > 0

\* handleLowBatteryDetection creates a low-battery alert for dev
LowBatteryAlertCreated(tracker, dev) ==
    /\ LowBattery(dev)
    /\ \/ tracker.battery[dev.deviceId] = 0
       \/ tracker.battery[dev.deviceId] > BatteryRecovered

\* the `${deviceId}_battery` entry after handleLowBatteryDetection(dev)
BatteryTrackerAfter(tracker, dev) ==
    IF LowBattery(dev)
      THEN IF LowBatteryAlertCreated(tracker, dev)
             THEN dev.batteryPercentage
             ELSE tracker.battery[dev.deviceId]
      ELSE IF dev.batteryPercentage >= BatteryRecovered
             THEN 0
             ELSE tracker.battery[dev.deviceId]

\* the callback of onValue(claimedDevicesRef): a snapshot holding the ids arrives
ClaimedSnapshot(ids) ==
    /\ subs[ClaimedKey] > 0
    /\ ids \subseteq CtxDevices
    /\ IF ids = {}
         THEN \* !snapshot.exists(): setDevices([]) and return
              /\ devices' = <<>>
              /\ UNCHANGED <<listenersRef, subs>>
         ELSE LET claimedDeviceIds == KeysOf(ids)
                  \* the loop: subscribe to data and info of ids not yet listened to
                  newKeys == UNION {{DataKey(id), InfoKey(id)} :
                                       id \in {x \in ids : DataKey(x) \notin listenersRef}}
                  withNew == listenersRef \cup newKeys
                  \* ids of the keys that start with 'device_'
                  currentDeviceIds ==
                      {KeyDeviceId(k) : k \in {x \in withNew : x.kind # "claimedDevices"}}
                  removed == {id \in currentDeviceIds : id \notin ids}
                  \* the keys found under `device_${existingId}_data` and `_info`
                  removedKeys == withNew \cap
                                    UNION {{DataKey(id), InfoKey(id)} : id \in removed}
              IN /\ devices' = [i \in 1..Len(claimedDeviceIds) |->
                                   MergeDevice(NewDevice(claimedDeviceIds[i]), devices)]
                 /\ listenersRef' = withNew \ removedKeys
                 /\ subs' = [k \in CtxKeys |->
                                 subs[k] + (IF k \in newKeys THEN 1 ELSE 0)
                                         - (IF k \in removedKeys THEN 1 ELSE 0)]
    /\ UNCHANGED <<alertTracker, updates, appState>>
    /\ UNCHANGED <<ownVars, lsnVars, batVars>>

\* the callback of onValue(deviceDataRef) for device id: a data snapshot arrives
DataSnapshot(id, data) ==
    /\ subs[DataKey(id)] > 0
    /\ Len(updates) < MaxUpdates
    /\ LET listed == \E i \in 1..Len(devices) : devices[i].deviceId = id
           updated == UpdatedDevice(
                         devices[CHOOSE i \in 1..Len(devices) : devices[i].deviceId = id],
                         data)
       IN IF listed
            THEN \* prevDevices.map: replace the device, then check for alerts
                 /\ devices' = [i \in 1..Len(devices) |->
                                   IF devices[i].deviceId = id THEN updated ELSE devices[i]]
                 /\ alertTracker' =
                        [leak |-> [alertTracker.leak EXCEPT
                                      ![id] = LeakTrackerAfter(alertTracker, updated)],
                         battery |-> [alertTracker.battery EXCEPT
                                      ![id] = BatteryTrackerAfter(alertTracker, updated)]]
                 /\ updates' = Append(updates,
                        [deviceId |-> id, data |-> data, listed |-> TRUE,
                         leakAlert |-> LeakAlertCreated(alertTracker, updated),
                         lowBatteryAlert |-> LowBatteryAlertCreated(alertTracker, updated)])
            ELSE \* the device is not in the list: push it, no alert check
                 /\ devices' = Append(devices, UpdatedDevice(NewDevice(id), data))
                 /\ UNCHANGED alertTracker
                 /\ updates' = Append(updates,
                        [deviceId |-> id, data |-> data, listed |-> FALSE,
                         leakAlert |-> FALSE, lowBatteryAlert |-> FALSE])
    /\ UNCHANGED <<listenersRef, subs, appState>>
    /\ UNCHANGED <<ownVars, lsnVars, batVars>>

\* the telemetry a data snapshot may hold: every flow and valve state on a full
\* battery, and every battery level with the valve open and no flow
DataValues ==
    [flowRate : FlowRates, valveState : ValveStates, batteryPercentage : {30}]
       \cup [flowRate : {5}, valveState : {"OPEN"}, batteryPercentage : BatteryLevels]

\* the user's account holds the one device 'A'
AlertDevices == {<<"A">>}

NextAlerts ==
    \/ \E ids \in SUBSET AlertDevices : ClaimedSnapshot(ids)
    \/ \E id \in AlertDevices, data \in DataValues : DataSnapshot(id, data)

SpecAlerts == Init /\ [][NextAlerts]_vars

---------------------------------------------------------------------------
(* DeviceDataProvider: the info listener, the app state handler and the     *)
(* alert counts derived from the devices list                               *)

\* let actualStatus = deviceInfo.status || 'offline', turned 'offline' when the
\* status is 'online' and lastSeen is more than five minutes old
ActualStatus(info) ==
    LET status == IF info.status = "absent" THEN "offline" ELSE info.status
    IN IF info.stale /\ status = "online" THEN "offline" ELSE status

\* the info listener callback without the deviceExists test: it pushes always
InfoSnapshotAlwaysPush(id, info) ==
    /\ subs[InfoKey(id)] > 0
    /\ devices' = Append(devices,
          [NewDevice(id) EXCEPT
              !.status = ActualStatus(info),
              !.batteryLevel = info.batteryPercentage,
              !.batteryPercentage = info.batteryPercentage])
    /\ UNCHANGED <<listenersRef, alertTracker, updates, subs, appState>>
    /\ UNCHANGED <<ownVars, lsnVars, batVars>>

\* the callback of onValue(deviceInfoRef) for device id: an info snapshot arrives
InfoSnapshot(id, info) ==
    /\ subs[InfoKey(id)] > 0
    /\ LET listed == \E i \in 1..Len(devices) : devices[i].deviceId = id
       IN IF listed
            THEN \* prevDevices.map: status and batteryPercentage of the device
                 devices' = [i \in 1..Len(devices) |->
                    IF devices[i].deviceId = id
                      THEN [devices[i] EXCEPT
                              !.status = ActualStatus(info),
                              !.batteryPercentage =
                                  IF info.batteryPercentage # 0
                                    THEN info.batteryPercentage
                                    ELSE devices[i].batteryLevel]
                      ELSE devices[i]]
            ELSE \* the device is not in the list: push it with its info
                 devices' = Append(devices,
                    [NewDevice(id) EXCEPT
                        !.status = ActualStatus(info),
                        !.batteryLevel = info.batteryPercentage,
                        !.batteryPercentage = info.batteryPercentage])
    /\ UNCHANGED <<listenersRef, alertTracker, updates, subs, appState>>
    /\ UNCHANGED <<ownVars, lsnVars, batVars>>

\* AppState values
AppStates == {"active", "inactive", "background"}

\* handleAppStateChange(nextAppState) without cleanupAllListeners() on resume
handleAppStateChangeNoCleanup(nextAppState) ==
    /\ nextAppState \in AppStates
    /\ IF appState \in {"inactive", "background"} /\ nextAppState = "active"
         THEN /\ listenersRef' = listenersRef \cup {ClaimedKey}
              /\ subs' = [subs EXCEPT ![ClaimedKey] = @ + 1]
         ELSE UNCHANGED <<listenersRef, subs>>
    /\ appState' = nextAppState
    /\ UNCHANGED <<devices, alertTracker, updates>>
    /\ UNCHANGED <<ownVars, lsnVars, batVars>>

\* handleAppStateChange(nextAppState): on resume, cleanupAllListeners() calls
\* every unsubscribe function held in listenersRef.current and empties it, then
\* setupDeviceListeners() subscribes to users/{uid}/claimedDevices
handleAppStateChange(nextAppState) ==
    /\ nextAppState \in AppStates
    /\ IF appState \in {"inactive", "background"} /\ nextAppState = "active"
         THEN /\ listenersRef' = {ClaimedKey}
              /\ subs' = [k \in CtxKeys |->
                              subs[k] - (IF k \in listenersRef THEN 1 ELSE 0)
                                      + (IF k = ClaimedKey THEN 1 ELSE 0)]
         ELSE UNCHANGED <<listenersRef, subs>>
    /\ appState' = nextAppState
    /\ UNCHANGED <<devices, alertTracker, updates>>
    /\ UNCHANGED <<ownVars, lsnVars, batVars>>

\* String.prototype.toLowerCase on the status strings
toLowerCase(str) ==
    CASE str = "Offline" -> "offline"
      [] str = "Online" -> "online"
      [] OTHER -> str

\* the reduce callback with the test batteryLevel > 0 left out
CountDeviceNoZeroTest(counts, device) ==
    LET batteryLevel == IF device.batteryPercentage # 0
                          THEN device.batteryPercentage
                          ELSE device.batteryLevel
        flowRate == device.flowRate
        valveState == IF device.valveState = "undefined"
                        THEN "UNKNOWN" ELSE device.valveState
        status == toLowerCase(device.status)
    IN [lowBattery |-> counts.lowBattery
                          + (IF batteryLevel < LowBatteryThreshold THEN 1 ELSE 0),
        leak |-> counts.leak
                    + (IF flowRate > FlowThreshold /\ valveState = "CLOSED"
                         THEN 1 ELSE 0),
        offline |-> counts.offline + (IF status = "offline" THEN 1 ELSE 0)]

\* the reduce callback of alertCounts
CountDevice(counts, device) ==
    LET batteryLevel == IF device.batteryPercentage # 0
                          THEN device.batteryPercentage
                          ELSE device.batteryLevel
        flowRate == device.flowRate
        valveState == IF device.valveState = "undefined"
                        THEN "UNKNOWN" ELSE device.valveState
        status == toLowerCase(device.status)
    IN [lowBattery |-> counts.lowBattery
                          + (IF batteryLevel < LowBatteryThreshold /\ batteryLevel > 0
                               THEN 1 ELSE 0),
        leak |-> counts.leak
                    + (IF flowRate > FlowThreshold /\ valveState = "CLOSED"
                         THEN 1 ELSE 0),
        offline |-> counts.offline + (IF status = "offline" THEN 1 ELSE 0)]

RECURSIVE Reduce(_, _)
\* devices.reduce(callback, counts)
Reduce(devs, counts) ==
    IF devs = <<>> THEN counts
                   ELSE Reduce(Tail(devs), CountDevice(counts, Head(devs)))

alertCounts == Reduce(devices, [lowBattery |-> 0, leak |-> 0, offline |-> 0])

totalAlerts == alertCounts.lowBattery + alertCounts.leak + alertCounts.offline

hasActiveAlerts == totalAlerts > 0

\* the telemetry of the data snapshots: a leak on a full battery, a low battery
CtxDataValues ==
    {[flowRate |-> 6, valveState |-> "CLOSED", batteryPercentage |-> 30],
     [flowRate |-> 0, valveState |-> "OPEN", batteryPercentage |-> 15]}

\* the contents of the info snapshots: an online device last seen long ago that
\* reports no battery level, and a device marked 'Offline' with a full battery
InfoValues ==
    {[status |-> "online", stale |-> TRUE, batteryPercentage |-> 0],
     [status |-> "Offline", stale |-> FALSE, batteryPercentage |-> 30]}

NextContext ==
    \/ \E ids \in SUBSET CtxDevices : ClaimedSnapshot(ids)
    \/ \E id \in CtxDevices, data \in CtxDataValues :
          Len(updates) < MaxCtxUpdates /\ DataSnapshot(id, data)
    \/ \E id \in CtxDevices, info \in InfoValues : InfoSnapshot(id, info)
    \/ \E nextAppState \in AppStates : handleAppStateChange(nextAppState)

SpecContext == Init /\ [][NextContext]_vars

---------------------------------------------------------------------------
(* batteryMonitorService.js: the battery monitors of one client, the alert  *)
(* cooldown, and the clock                                                  *)

BATTERY_ALERT_COOLDOWN == 2       \* 24 hours, in units of twelve hours

\* the battery levels a data snapshot may report
MonitorLevels == {15, 30}

\* the activeBatteryListeners entries under `battery_${deviceId}`
Monitored(d) == {l \in activeBatteryListeners : l.d = d}

\* stopMonitoring(deviceId) applied to the registry and to the attached handlers
StopMonitoringIn(listeners, handlers, d) ==
    [listeners |-> {l \in listeners : l.d # d},
     attached |-> {s \in handlers : \A l \in listeners : l.d = d => l.sub # s.id}]

\* monitorDeviceBattery(userId, deviceId, deviceName) applied likewise: stop the
\* monitor registered for the device, attach handleBatteryUpdate, register it
MonitorIn(listeners, handlers, userId, d, id) ==
    LET stopped == StopMonitoringIn(listeners, handlers, d)
    IN [listeners |-> stopped.listeners \cup {[d |-> d, userId |-> userId, sub |-> id]},
        attached |-> stopped.attached \cup {[id |-> id, userId |-> userId, d |-> d]}]

\* batteryMonitorService.monitorDeviceBattery(userId, deviceId, deviceName)
monitorDeviceBattery(userId, d) ==
    /\ subscribed < MaxSubs
    /\ LET after == MonitorIn(activeBatteryListeners, batteryAttached,
                              userId, d, subscribed + 1)
       IN /\ activeBatteryListeners' = after.listeners
          /\ batteryAttached' = after.attached
    /\ subscribed' = subscribed + 1
    /\ UNCHANGED <<alertCooldowns, now, lowBatteryCalls, batteryAlerts, user, monitoring>>
    /\ UNCHANGED <<currentUser, activeListeners, attached, lastCallback>>
    /\ UNCHANGED <<ownVars, ctxVars>>

\* batteryMonitorService.stopMonitoring(deviceId), also the function
\* monitorDeviceBattery returned
stopMonitoring(d) ==
    /\ Monitored(d) # {}
    /\ LET after == StopMonitoringIn(activeBatteryListeners, batteryAttached, d)
       IN /\ activeBatteryListeners' = after.listeners
          /\ batteryAttached' = after.attached
    /\ UNCHANGED <<alertCooldowns, now, lowBatteryCalls, batteryAlerts, user, monitoring>>
    /\ UNCHANGED <<ownVars, lsnVars, ctxVars>>

\* the handlers left attached when every registered listener's cleanup() has run
AfterStopAll == {s \in batteryAttached : \A l \in activeBatteryListeners : l.sub # s.id}

\* batteryMonitorService.stopAllMonitoring()
stopAllMonitoring ==
    /\ activeBatteryListeners # {} \/ \E d \in Devices : alertCooldowns[d] # 0
    /\ batteryAttached' = AfterStopAll
    /\ activeBatteryListeners' = {}
    /\ alertCooldowns' = [d \in Devices |-> 0]
    /\ UNCHANGED <<now, lowBatteryCalls, batteryAlerts, user, monitoring>>
    /\ UNCHANGED <<ownVars, lsnVars, ctxVars>>

\* handleLowBattery finds the cooldown of the device active
CooldownActive(d) ==
    alertCooldowns[d] # 0 /\ (now - alertCooldowns[d]) < BATTERY_ALERT_COOLDOWN

\* handleBatteryUpdate(snapshot) of an attached handler, the snapshot reporting
\* batteryPercentage = level: below 20 it calls handleLowBattery, which returns
\* at once when the cooldown is active and else awaits createLowBatteryAlert
handleBatteryUpdate(s, level) ==
    /\ s \in batteryAttached
    /\ Len(lowBatteryCalls) < MaxPending
    /\ Len(batteryAlerts) < MaxAlerts
    /\ IF level < LowBatteryThreshold /\ ~CooldownActive(s.d)
         THEN lowBatteryCalls' = Append(lowBatteryCalls, [d |-> s.d, now |-> now])
         ELSE UNCHANGED lowBatteryCalls
    /\ UNCHANGED <<activeBatteryListeners, batteryAttached, alertCooldowns, now,
                   batteryAlerts, user, monitoring>>
    /\ UNCHANGED <<ownVars, lsnVars, ctxVars>>

\* the calls still waiting when call i has returned
WithoutCall(i) ==
    [j \in 1..(Len(lowBatteryCalls) - 1) |->
        IF j < i THEN lowBatteryCalls[j] ELSE lowBatteryCalls[j + 1]]

\* handleLowBattery after await alertService.createLowBatteryAlert(...): when the
\* alert was created, alertCooldowns.set(cooldownKey, now) with the time read
\* when the call began
LowBatteryAlertResolved(i, success) ==
    /\ i \in 1..Len(lowBatteryCalls)
    /\ IF success
         THEN /\ alertCooldowns' =
                     [alertCooldowns EXCEPT ![lowBatteryCalls[i].d] = lowBatteryCalls[i].now]
              /\ batteryAlerts' =
                     Append(batteryAlerts, [d |-> lowBatteryCalls[i].d, at |-> now])
         ELSE UNCHANGED <<alertCooldowns, batteryAlerts>>
    /\ lowBatteryCalls' = WithoutCall(i)
    /\ UNCHANGED <<activeBatteryListeners, batteryAttached, now, user, monitoring>>
    /\ UNCHANGED <<ownVars, lsnVars, ctxVars>>

\* twelve hours pass
Tick ==
    /\ now < MaxTime
    /\ now' = now + 1
    /\ UNCHANGED <<activeBatteryListeners, batteryAttached, alertCooldowns,
                   lowBatteryCalls, batteryAlerts, user, monitoring>>
    /\ UNCHANGED <<ownVars, lsnVars, ctxVars>>

NextBattery ==
    \/ \E u \in Users, d \in Devices : monitorDeviceBattery(u, d)
    \/ \E d \in Devices : stopMonitoring(d)
    \/ stopAllMonitoring
    \/ \E s \in batteryAttached, level \in MonitorLevels : handleBatteryUpdate(s, level)
    \/ \E i \in 1..Len(lowBatteryCalls), success \in BOOLEAN :
          LowBatteryAlertResolved(i, success)
    \/ Tick

SpecBattery == Init /\ [][NextBattery]_vars

---------------------------------------------------------------------------
(* The signed-in session of one client: the three deviceService listeners,  *)
(* the auth state change as the app's effects handle it (AuthProvider,      *)
(* AppNavigator and TabNavigator), and monitorAllDevices                    *)

NoDevice == 0         \* deviceId = null in generateListenerKey

ListenerTypes == {"devices", "device_info", "device_data"}

\* the registry and the handlers after the listener under key is cleaned up
\* and, when attach holds, a new subscription is attached and registered
Listen(type, userId, d, attach) ==
    LET key == generateListenerKey(type, userId, d)
        id == subscribed + 1
        kept == {s \in attached : \A l \in Registered(key) : l.sub # s.id}
    IN /\ activeListeners' =
              (activeListeners \ Registered(key))
                 \cup (IF attach THEN {[key |-> key, sub |-> id]} ELSE {})
       /\ attached' =
              kept \cup (IF attach
                           THEN {[id |-> id, type |-> type, userId |-> userId, d |-> d]}
                           ELSE {})
       /\ subscribed' = IF attach THEN id ELSE subscribed

\* deviceService.listenToDeviceStatus(userId, callback): clean up the listener
\* under the key, return when userId is not the signed-in user, else attach
\* handleValue and register the listener
listenToDeviceStatus(userId) ==
    /\ subscribed < MaxSubs
    /\ Listen("devices", userId, NoDevice, currentUser # NoUser /\ currentUser = userId)
    /\ UNCHANGED <<currentUser, lastCallback>>
    /\ UNCHANGED <<ownVars, ctxVars, batVars>>

\* deviceService.listenToDeviceInfo(deviceId, callback)
listenToDeviceInfo(d) ==
    /\ currentUser # NoUser
    /\ subscribed < MaxSubs
    /\ Listen("device_info", currentUser, d, TRUE)
    /\ UNCHANGED <<currentUser, lastCallback>>
    /\ UNCHANGED <<ownVars, ctxVars, batVars>>

\* the activeListeners entries cleanupUserListeners(userId) removes: the keys
\* that include the uid
UserListeners(userId) == {l \in activeListeners : l.key[2] = userId}

RECURSIVE MonitorEach(_, _, _, _, _)
\* snapshot.forEach: monitorDeviceBattery for each device of the list in turn
MonitorEach(listeners, handlers, userId, devs, id) ==
    IF devs = {}
      THEN [listeners |-> listeners, attached |-> handlers]
      ELSE LET d == CHOOSE x \in devs : \A y \in devs : x <= y
               m == MonitorIn(listeners, handlers, userId, d, id + 1)
           IN MonitorEach(m.listeners, m.attached, userId, devs \ {d}, id + 1)

\* the app handles a change of the authenticated user: the AuthProvider's auth
\* state listener calls setUser (the user its closure holds is the one of the
\* mount, null, so it cleans up nothing itself); the TabNavigator effect of the
\* previous user is cleaned up (cleanupUserListeners(user.uid),
\* stopAllMonitoring()); without a user the AppNavigator effect runs
\* cleanupAllListeners() and stopAllMonitoring(); with a user the TabNavigator
\* effect calls monitorAllDevices(user.uid), which awaits the device list
AuthStateChanged ==
    /\ user # currentUser
    /\ currentUser # NoUser => monitoring[currentUser] < MaxPending
    /\ LET cleaned == IF currentUser = NoUser THEN activeListeners
                                              ELSE UserListeners(user)
       IN /\ activeListeners' = activeListeners \ cleaned
          /\ attached' = {s \in attached : \A l \in cleaned : l.sub # s.id}
    /\ IF user # NoUser
         THEN /\ batteryAttached' = AfterStopAll
              /\ activeBatteryListeners' = {}
              /\ alertCooldowns' = [d \in Devices |-> 0]
         ELSE UNCHANGED <<batteryAttached, activeBatteryListeners, alertCooldowns>>
    /\ monitoring' = IF currentUser # NoUser
                       THEN [monitoring EXCEPT ![currentUser] = @ + 1]
                       ELSE monitoring
    /\ user' = currentUser
    /\ UNCHANGED <<currentUser, subscribed, lastCallback>>
    /\ UNCHANGED <<now, lowBatteryCalls, batteryAlerts>>
    /\ UNCHANGED <<ownVars, ctxVars>>

\* monitorAllDevices(userId) after await get(devicesRef): the list holds the
\* devices devs (none when the snapshot does not exist or the read failed)
MonitorAllResolved(userId, devs) ==
    /\ monitoring[userId] > 0
    /\ subscribed + Cardinality(devs) <= MaxSubs
    /\ LET after == MonitorEach(activeBatteryListeners, batteryAttached,
                                userId, devs, subscribed)
       IN /\ activeBatteryListeners' = after.listeners
          /\ batteryAttached' = after.attached
    /\ subscribed' = subscribed + Cardinality(devs)
    /\ monitoring' = [monitoring EXCEPT ![userId] = @ - 1]
    /\ UNCHANGED <<alertCooldowns, now, lowBatteryCalls, batteryAlerts, user>>
    /\ UNCHANGED <<currentUser, activeListeners, attached, lastCallback>>
    /\ UNCHANGED <<ownVars, ctxVars>>

\* the calls and callbacks of the three deviceService listeners
NextListeners ==
    \/ \E u \in Users : SignIn(u)
    \/ SignOut
    \/ \E u \in Users : listenToDeviceStatus(u)
    \/ \E d \in Devices : listenToDeviceInfo(d)
    \/ \E d \in Devices : listenToDeviceData(d)
    \/ \E s \in attached, exists \in BOOLEAN : handleValue(s, exists)
    \/ \E s \in attached : handleError(s)
    \/ \E type \in ListenerTypes, u \in Users, d \in Devices \cup {NoDevice} :
          Unsubscribe(type, u, d)

SpecListeners == Init /\ [][NextListeners]_vars

\* the session: sign-in and sign-out, each once the app has handled the one
\* before, the app's handling of them, the battery monitors, and the listeners
\* the screens of the signed-in user register
NextSession ==
    \/ \E u \in Users : user = currentUser /\ SignIn(u)
    \/ user = currentUser /\ SignOut
    \/ AuthStateChanged
    \/ \E u \in Users, devs \in SUBSET Devices : MonitorAllResolved(u, devs)
    \/ \E u \in Users : user = u /\ listenToDeviceStatus(u)
    \/ \E d \in Devices : user # NoUser /\ listenToDeviceData(d)
    \/ \E s \in attached : handleValue(s, TRUE)

SpecSession == Init /\ [][NextSession]_vars

---------------------------------------------------------------------------
(* Properties of the ownership protocol, checked under Spec *)

\* the step is taken by the call of user u
Steps(u) == calls'[u] # calls[u]

\* the call of user u returns in this step
Returns(u) == calls[u].pc # "done" /\ calls'[u].pc = "done"

\* C1: a device is claimed by exactly one user: if D is in users/U/claimedDevices
\* then no other user has D in its claimedDevices and deviceOwners/D, when
\* present, equals U.
C1_ExclusiveClaim ==
    \A u \in Users : \A d \in claimed[u] :
        /\ \A v \in Users \ {u} : d \notin claimed[v]
        /\ owner[d] \in {NoOwner, u}

\* C2: addDevice for a device whose ownership record names another user returns
\* { success: false, isDuplicate: true } and writes neither claimedDevices nor
\* deviceOwners.
C2_DuplicateProtection ==
    [][\A u \in Users :
          (At(u, "addDevice", "checkOwner") /\ Steps(u)
              /\ OwnedByOther(owner[calls[u].d], u))
          => /\ calls'[u].pc = "done"
             /\ calls'[u].res.success = FALSE
             /\ calls'[u].res.isDuplicate = TRUE
             /\ claimed' = claimed
             /\ owner' = owner]_vars

C2_Witness ==
    \E u \in Users :
        /\ At(u, "addDevice", "done")
        /\ calls[u].res.isDuplicate
        /\ OwnedByOther(owner[calls[u].d], u)
        /\ calls[u].d \notin claimed[u]

\* C3: addDevice by the signed-in user U for a device without ownership record,
\* when both writes complete, returns { success: true, deviceId: D } and then
\* users/U/claimedDevices/D is true and deviceOwners/D equals U.
C3_AddDeviceClaims ==
    [][\A u \in Users :
          (At(u, "addDevice", "writeOwner") /\ Steps(u))
          => LET d == calls[u].d IN
             \/ /\ calls'[u].res = Ok(FALSE, d, "absent")
                /\ d \in claimed'[u]
                /\ owner'[d] = u
             \/ /\ calls'[u].res.success = FALSE
                /\ owner' = owner]_vars

C3_Witness ==
    \E u \in Users :
        /\ At(u, "addDevice", "done")
        /\ calls[u].res.success /\ calls[u].res.deviceId = calls[u].d
        /\ calls[u].d \in claimed[u]
        /\ owner[calls[u].d] = u

\* C4: addDevice and claimDeviceOwnership by the user the ownership record
\* already names return { success: true, alreadyOwned: true } and leave the
\* database unchanged, however often they are repeated.
C4_IdempotentClaim ==
    [][\A u \in Users :
          (calls[u].op \in {"addDevice", "claimDeviceOwnership"}
              /\ calls[u].pc = "checkOwner" /\ Steps(u)
              /\ owner[calls[u].d] = u)
          => /\ calls'[u].pc = "done"
             /\ calls'[u].res = Ok(TRUE, 0, "absent")
             /\ claimed' = claimed
             /\ owner' = owner
             /\ commands' = commands]_vars

\* the third call of a run, a repeated claim by the owner, returned alreadyOwned
C4_Witness ==
    \E u \in Users :
        /\ started = 3
        /\ At(u, "claimDeviceOwnership", "done")
        /\ calls[u].res.alreadyOwned
        /\ owner[calls[u].d] = u

\* C5: whenever controlValve or resetTotalLitres writes a command for device D,
\* deviceOwners/D equals the uid of the user that issued the call.
C5_OnlyOwnerCommands ==
    [][\A u \in Users :
          (calls[u].op \in CommandOps /\ calls[u].pc = "writeCommand"
              /\ Steps(u) /\ calls'[u].res.success)
          => owner[calls[u].d] = u]_vars

\* removeDevice of user u returns { success: true } in this step
RemoveDeviceSucceeds(u) ==
    /\ calls[u].op = "removeDevice"
    /\ Returns(u)
    /\ calls'[u].res.success

\* C6 as stated: after removeDevice(U, D) returns { success: true }, D is absent
\* from users/U/claimedDevices, deviceOwners/D does not equal U, and addDevice(V, D)
\* is not rejected as a duplicate for any user V.
C6_RemoveFreesDevice ==
    [][\A u \in Users :
          RemoveDeviceSucceeds(u)
          => LET d == calls[u].d IN
             /\ d \notin claimed'[u]
             /\ owner'[d] # u
             /\ \A v \in Users : ~OwnedByOther(owner'[d], v)]_vars

\* C6 as amended: after removeDevice(U, D) returns { success: true }, D is absent
\* from users/U/claimedDevices and deviceOwners/D does not equal U: the record is
\* absent, or it still names the other user it named before.
C6_RemoveReleasesOwnClaim ==
    [][\A u \in Users :
          RemoveDeviceSucceeds(u)
          => LET d == calls[u].d IN
             /\ d \notin claimed'[u]
             /\ owner'[d] # u
             /\ \/ owner'[d] = NoOwner
                \/ owner'[d] = owner[d] /\ OwnedByOther(owner[d], u)]_vars

\* removeDevice returned success for a device the user had claimed and owned
C6_Witness ==
    \E u \in Users :
        /\ At(u, "removeDevice", "done")
        /\ calls[u].res.success
        /\ owner[calls[u].d] = NoOwner
        /\ claimed[u] = {}
        /\ started >= 2

\* C7: getDeviceData, getDeviceInfo, getDeviceHistory and getAnalyticsData return
\* { success: false, error: 'Device not found or unauthorized' } with null or
\* empty data, and not the stored records, when the ownership record they read
\* is absent or names another user.
C7_OwnerGatedReads ==
    [][\A u \in Users :
          (calls[u].op \in ReadOps /\ calls[u].pc = "checkOwner" /\ Steps(u)
              /\ NotOwner(owner[calls[u].d], u))
          => /\ calls'[u].pc = "done"
             /\ calls'[u].res =
                   Err("Device not found or unauthorized", FALSE, NoData(calls[u].op))
             /\ calls'[u].res.data # "stored"]_vars

C7_Witness ==
    \E u \in Users :
        /\ calls[u].op \in ReadOps /\ calls[u].pc = "done"
        /\ calls[u].res.error = "Device not found or unauthorized"
        /\ OwnedByOther(owner[calls[u].d], u)


---------------------------------------------------------------------------
(* Properties of the device-data listener, checked under SpecListen *)

\* C8: the callback given to listenToDeviceData(D, callback) is invoked with
\* device data only if the signed-in user is the recorded owner of D.
C8_CallbackOnlyForOwner ==
    [][(lastCallback' # lastCallback /\ lastCallback'.data = "deviceData")
          => /\ currentUser = lastCallback'.userId
             /\ owner[lastCallback'.d] = currentUser]_vars


---------------------------------------------------------------------------
(* Properties of the alert derivation, checked under SpecAlerts *)

\* the snapshots the data listener evaluated for alerts (the device was listed)
Evaluated == SelectSeq(updates, LAMBDA e : e.listed)

\* evaluated snapshots i and j are of the same device
SameDevice(i, j) == Evaluated[i].deviceId = Evaluated[j].deviceId

\* C9: once a low-battery alert has been created for a device, no further one
\* is created for it until a reading with the battery above 25% has been received.
C9_LowBatteryHysteresis ==
    \A i, j \in 1..Len(Evaluated) :
        (i < j /\ SameDevice(i, j)
            /\ Evaluated[i].lowBatteryAlert /\ Evaluated[j].lowBatteryAlert)
        => \E k \in (i+1)..(j-1) :
              /\ SameDevice(i, k)
              /\ Evaluated[k].data.batteryPercentage > BatteryRecovered

\* the leak condition of the claim holds of snapshot i: flowRate > 0.5, valve CLOSED
LeakUpdate(i) ==
    /\ Evaluated[i].data.flowRate > FlowThreshold
    /\ Evaluated[i].data.valveState = "CLOSED"

\* snapshot i begins a leak episode of its device: the device's previous
\* snapshot, if there is one, did not satisfy the leak condition
EpisodeStart(i) ==
    /\ LeakUpdate(i)
    /\ \A j \in 1..(i-1) :
          (SameDevice(i, j) /\ \A k \in (j+1)..(i-1) : ~SameDevice(i, k))
          => ~LeakUpdate(j)

\* C10: a leak alert is created when a data update has flowRate > 0.5 while the
\* valve is CLOSED, exactly one per continuous leak episode: the snapshot that
\* begins an episode creates the alert, no other snapshot does, and between two
\* leak alerts of a device lies a snapshot without the leak condition.
C10_LeakAlertPerEpisode ==
    /\ \A i \in 1..Len(Evaluated) : Evaluated[i].leakAlert <=> EpisodeStart(i)
    /\ \A i, j \in 1..Len(Evaluated) :
          (i < j /\ SameDevice(i, j) /\ Evaluated[i].leakAlert /\ Evaluated[j].leakAlert)
          => \E k \in (i+1)..(j-1) : SameDevice(i, k) /\ ~LeakUpdate(k)

---------------------------------------------------------------------------
(* Properties of the whole provider, checked under SpecContext *)

\* the positions of the devices list that satisfy P
Positions(P(_)) == {i \in 1..Len(devices) : P(devices[i])}

C15_ResumeResubscribes ==
    [][/\ (appState \in {"inactive", "background"} /\ appState' = "active")
            => /\ listenersRef' = {ClaimedKey}
               /\ subs' = [k \in CtxKeys |-> IF k = ClaimedKey THEN 1 ELSE 0]
       /\ (appState' # appState /\ appState' \in {"inactive", "background"})
            => /\ listenersRef' = listenersRef
               /\ subs' = subs
       /\ subs'[ClaimedKey] = 1
       /\ \A k \in CtxKeys : subs'[k] <= 1]_vars

\* the app is active again after a resume that dropped the data and info
\* subscriptions of the devices in the list
C15_Witness ==
    /\ appState = "active"
    /\ devices # <<>>
    /\ listenersRef = {ClaimedKey}
    /\ subs = [k \in CtxKeys |-> IF k = ClaimedKey THEN 1 ELSE 0]

\* the ids with a data or info subscription attached or registered
ListenedIds ==
    {id \in CtxDevices : \E k \in {DataKey(id), InfoKey(id)} :
                            subs[k] > 0 \/ k \in listenersRef}

\* C16: after a claimedDevices snapshot that does not contain device D has been
\* processed, the data and info subscriptions of D are unsubscribed and its keys
\* are absent from the listener registry, for every device id D.
C16_RemovedDevicesCleanedUp ==
    [][\A ids \in SUBSET CtxDevices :
          ClaimedSnapshot(ids) => (ListenedIds' \subseteq ids)]_vars

\* the deviceIds of the devices list
ListedIds(devs) == {devs[i].deviceId : i \in 1..Len(devs)}

\* C17: the devices list never contains two entries with the same deviceId, and
\* right after a non-empty claimedDevices snapshot is applied the deviceIds of
\* the list are exactly the keys of that snapshot.
C17_DevicesListUnique ==
    [][/\ \A i, j \in 1..Len(devices') :
             devices'[i].deviceId = devices'[j].deviceId => i = j
       /\ \A ids \in SUBSET CtxDevices :
             (ids # {} /\ ClaimedSnapshot(ids)) => ListedIds(devices') = ids]_vars

\* both devices are listed, one of them pushed by a data snapshot that found it
\* missing from the list
C17_Witness ==
    /\ ListedIds(devices) = CtxDevices
    /\ Len(devices) = 2
    /\ \E n \in 1..Len(updates) : ~updates[n].listed

---------------------------------------------------------------------------
(* Properties of the battery monitors, checked under SpecBattery *)

\* C12: after a low-battery alert has been created for a device, no second one
\* is created for that device within the following 24 hours.
C12_AlertCooldown ==
    \A i, j \in 1..Len(batteryAlerts) :
        (i < j /\ batteryAlerts[i].d = batteryAlerts[j].d)
        => batteryAlerts[j].at - batteryAlerts[i].at >= BATTERY_ALERT_COOLDOWN

---------------------------------------------------------------------------
(* Properties of the deviceService listeners, checked under SpecListeners *)

\* the listener key a subscription was created for
KeyOf(s) == generateListenerKey(s.type, s.userId, s.d)

\* C13: each listener key (type, user, device) has at most one subscription
\* attached to the database, and activeListeners holds an entry for a key
\* exactly when a subscription created for that key is attached: every entry
\* names an attached subscription of its key and every attached subscription
\* is named by the entry of its key.
C13_OneSubscriptionPerKey ==
    /\ \A s, t \in attached : KeyOf(s) = KeyOf(t) => s = t
    /\ \A l, m \in activeListeners : l.key = m.key => l = m
    /\ \A l \in activeListeners : \E s \in attached : s.id = l.sub /\ KeyOf(s) = l.key
    /\ \A s \in attached : \E l \in activeListeners : l.sub = s.id /\ l.key = KeyOf(s)

\* three subscriptions have been created, the last is registered and attached,
\* and an earlier one has been detached
C13_Witness ==
    /\ subscribed = 3
    /\ Cardinality(attached) = 2
    /\ \E l \in activeListeners : l.sub = 3

---------------------------------------------------------------------------
(* Properties of the session, checked under SpecSession *)

\* user a has a deviceService listener or a battery monitor
HasListeners(a) ==
    \/ \E l \in activeListeners : l.key[2] = a
    \/ \E s \in attached : s.userId = a
    \/ \E l \in activeBatteryListeners : l.userId = a
    \/ \E s \in batteryAttached : s.userId = a

\* C14: once the authenticated user is no longer A and the app has handled
\* the change, no deviceService listener and no battery monitor is registered
\* for A, and none is registered for A afterwards.
C14_TeardownOnUserSwitch ==
    \A a \in Users : (currentUser # a /\ user # a) => ~HasListeners(a)

=============================================================================
